---- MODULE Spec2Model ----
(***************************************************************************)
(* Model of the AI service's model registry, loader and dispatchers        *)
(* (services/ai/app/services/model_service.py, class ModelService) and of  *)
(* the LoadModel RPC handler that fronts it                                *)
(* (services/ai/app/grpc/model_service_impl.py).                           *)
(*                                                                         *)
(* self.models is a Python dict, i.e. an insertion-ordered map: it is a    *)
(* sequence of ModelConfigModel records here.  self.loaded_models is never *)
(* iterated, so it is a function from the loaded names to their handles.   *)
(* Every method of ModelService is a pure operator from the service state  *)
(* (and the outcome of the backend calls it makes) to a Result; one action *)
(* per method applies it.  The RPC handlers are coroutines that call the   *)
(* synchronous service without awaiting, so a handler runs atomically on   *)
(* the event loop; concurrent calls are calls in flight at the same time.  *)
(*                                                                         *)
(* The second half models the vector service                               *)
(* (services/ai/app/services/vector_db.py, class VectorDBService) over the *)
(* Milvus backend it calls through pymilvus.  The service keeps no state   *)
(* of its own: the state is the backend's collections.  Every backend call *)
(* may raise; which of the calls of a method raises is an input.           *)
(* MilvusClient (services/ai/milvus_client.py) is the second wrapper of    *)
(* the same backend, used by ai_grpc_services_with_milvus.py.              *)
(***************************************************************************)
EXTENDS Naturals, Sequences, FiniteSets, TLC

VARIABLES
    models,         \* ModelService.models: Seq of ModelConfigModel, oldest first
    loaded_models,  \* ModelService.loaded_models: name -> handle
    openai_client,  \* ModelService.openai_client is not None
    last,           \* what the last call was and what it returned
    pending,        \* LoadModel RPCs in flight: name -> number of calls not yet run
    race,           \* bookkeeping of one group of LoadModel RPCs in flight together
    milvus,         \* the backend's collections: name -> collection
    vlast,          \* what the last vector-service call was and what it returned
    connected,      \* MilvusClient.connected
    collections,    \* MilvusClient.collections: name -> cached Collection object
    running         \* the register/update call that has stored its descriptor and
                    \* has not yet run its loop over the other descriptors

vars == <<models, loaded_models, openai_client, last, pending, race, milvus, vlast,
          connected, collections, running>>

----------------------------------------------------------------------------
(* Bounds and input domains *)

\* LoadModel RPCs that may be in flight at once.
MaxInFlight == 2

Names == {"m1", "m2"}

\* ModelProvider: OLLAMA and CUSTOM take the same branches everywhere; one of
\* them stands for both.
Providers == {"openai", "huggingface", "custom"}

ModelTypes == {"generation", "embedding"}

None == <<>>

Some(v) == <<v>>

Optional(S) == {None} \cup {Some(v) : v \in S}

RegisterRequests ==
    [name : Names, provider : Providers, model_type : ModelTypes, is_default : BOOLEAN]

UpdateRequests ==
    [name : Names, provider : Optional(Providers), model_type : Optional(ModelTypes),
     is_default : Optional(BOOLEAN)]

----------------------------------------------------------------------------
(* Dict helpers *)

HasModel(ms, name) == \E i \in 1..Len(ms) : ms[i].name = name

IndexOf(ms, name) == CHOOSE i \in 1..Len(ms) : ms[i].name = name

ConfigOf(ms, name) == ms[IndexOf(ms, name)]

DelModel(ms, name) == SelectSeq(ms, LAMBDA c : c.name # name)

DelHandle(lm, name) == [n \in (DOMAIN lm) \ {name} |-> lm[n]]

PutHandle(lm, name, h) == [n \in (DOMAIN lm) \cup {name} |-> IF n = name THEN h ELSE lm[n]]

\* What a call returns and leaves behind: the service state after it, the
\* success flag and message, the number of backend load and of backend
\* generate/embed invocations it made, and the model a dispatcher resolved.
Result(ms, lm, ok, msg, loads, gens) ==
    [models |-> ms, loaded |-> lm, ok |-> ok, msg |-> msg, loads |-> loads, gens |-> gens,
     model |-> ""]

----------------------------------------------------------------------------
(* ModelService *)

\* Faulty variant: the loop over the other descriptors is missing.
ClearOtherDefaults_skipped(ms, name) == ms

ClearOtherDefaults(ms, name) ==
    [i \in 1..Len(ms) |->
        IF ms[i].name # name THEN [ms[i] EXCEPT !.is_default = FALSE] ELSE ms[i]]

\* Faulty variant: the default flip runs before the duplicate-name check.
register_model_flip_first(ms, lm, req) ==
    LET flipped == IF req.is_default THEN ClearOtherDefaults(ms, req.name) ELSE ms IN
    IF HasModel(ms, req.name)
    THEN Result(flipped, lm, FALSE, "already_registered", 0, 0)
    ELSE Result(Append(flipped, [name |-> req.name, provider |-> req.provider,
                                 model_type |-> req.model_type,
                                 is_default |-> req.is_default]),
                lm, TRUE, "registered", 0, 0)

register_model(ms, lm, req) ==
    IF HasModel(ms, req.name)
    THEN Result(ms, lm, FALSE, "already_registered", 0, 0)
    ELSE LET model_config == [name |-> req.name, provider |-> req.provider,
                              model_type |-> req.model_type,
                              is_default |-> req.is_default]
             ms1 == Append(ms, model_config)
             ms2 == IF req.is_default THEN ClearOtherDefaults(ms1, req.name) ELSE ms1
         IN Result(ms2, lm, TRUE, "registered", 0, 0)

unload_model(ms, lm, name) ==
    IF name \notin DOMAIN lm
    THEN Result(ms, lm, TRUE, "not_loaded", 0, 0)
    ELSE Result(ms, DelHandle(lm, name), TRUE, "unloaded", 0, 0)

\* Faulty variant: is_default is stored but the other descriptors keep theirs.
update_model_no_flip(ms, lm, req) ==
    IF ~HasModel(ms, req.name)
    THEN Result(ms, lm, FALSE, "not_found", 0, 0)
    ELSE LET i == IndexOf(ms, req.name)
             c0 == ms[i]
             c1 == IF req.provider # None
                   THEN [c0 EXCEPT !.provider = req.provider[1]] ELSE c0
             c2 == IF req.model_type # None
                   THEN [c1 EXCEPT !.model_type = req.model_type[1]] ELSE c1
             c3 == IF req.is_default # None
                   THEN [c2 EXCEPT !.is_default = req.is_default[1]] ELSE c2
         IN Result([ms EXCEPT ![i] = c3], DelHandle(lm, req.name), TRUE, "updated", 0, 0)

\* Faulty variant: the handle of a loaded model survives the update.
update_model_keep_handle(ms, lm, req) ==
    IF ~HasModel(ms, req.name)
    THEN Result(ms, lm, FALSE, "not_found", 0, 0)
    ELSE LET i == IndexOf(ms, req.name)
             c0 == ms[i]
             c1 == IF req.provider # None
                   THEN [c0 EXCEPT !.provider = req.provider[1]] ELSE c0
             c2 == IF req.model_type # None
                   THEN [c1 EXCEPT !.model_type = req.model_type[1]] ELSE c1
             c3 == IF req.is_default # None
                   THEN [c2 EXCEPT !.is_default = req.is_default[1]] ELSE c2
             ms1 == [ms EXCEPT ![i] = c3]
             ms2 == IF req.is_default = Some(TRUE)
                   THEN ClearOtherDefaults(ms1, req.name) ELSE ms1
         IN Result(ms2, lm, TRUE, "updated", 0, 0)

update_model(ms, lm, req) ==
    IF ~HasModel(ms, req.name)
    THEN Result(ms, lm, FALSE, "not_found", 0, 0)
    ELSE LET i == IndexOf(ms, req.name)
             c0 == ms[i]
             c1 == IF req.provider # None
                   THEN [c0 EXCEPT !.provider = req.provider[1]] ELSE c0
             c2 == IF req.model_type # None
                   THEN [c1 EXCEPT !.model_type = req.model_type[1]] ELSE c1
             c3 == IF req.is_default # None
                   THEN [c2 EXCEPT !.is_default = req.is_default[1]] ELSE c2
             ms1 == [ms EXCEPT ![i] = c3]
             ms2 == IF req.is_default = Some(TRUE)
                   THEN ClearOtherDefaults(ms1, req.name) ELSE ms1
             lm1 == IF req.name \in DOMAIN lm
                   THEN unload_model(ms2, lm, req.name).loaded ELSE lm
         IN Result(ms2, lm1, TRUE, "updated", 0, 0)

\* Faulty variant: the descriptor is deleted without unloading first.
unregister_model_keep_handle(ms, lm, name) ==
    IF ~HasModel(ms, name)
    THEN Result(ms, lm, FALSE, "not_found", 0, 0)
    ELSE Result(DelModel(ms, name), lm, TRUE, "unregistered", 0, 0)

unregister_model(ms, lm, name) ==
    IF ~HasModel(ms, name)
    THEN Result(ms, lm, FALSE, "not_found", 0, 0)
    ELSE LET lm1 == IF name \in DOMAIN lm THEN unload_model(ms, lm, name).loaded ELSE lm
         IN Result(DelModel(ms, name), lm1, TRUE, "unregistered", 0, 0)

get_model(ms, name) == IF HasModel(ms, name) THEN Some(ConfigOf(ms, name)) ELSE None

\* Faulty variant: the first default of any model type is returned.
get_default_model_any_type(ms, model_type) ==
    LET hits == SelectSeq(ms, LAMBDA c : c.is_default)
    IN IF hits = <<>> THEN None ELSE Some(Head(hits))

get_default_model(ms, model_type) ==
    LET hits == SelectSeq(ms, LAMBDA c : c.model_type = model_type /\ c.is_default)
    IN IF hits = <<>> THEN None ELSE Some(Head(hits))

is_model_loaded(lm, name) == name \in DOMAIN lm

\* The handle a backend load produces.  A HuggingFace handle is the tokenizer
\* and model built from the descriptor; the OpenAI "handle" is the constant
\* string "openai".
huggingface_handle(config) ==
    [provider |-> "huggingface", model_type |-> config.model_type]

openai_handle == [provider |-> "openai", model_type |-> ""]

\* _load_huggingface_model raises ValueError for a model_type it does not
\* know; from_pretrained raises when backend_ok is FALSE.
load_huggingface_raises(config, backend_ok) ==
    \/ config.model_type \notin {"embedding", "generation"}
    \/ ~backend_ok

\* from_pretrained is reached only for a known model_type.
load_huggingface_calls(config) ==
    IF config.model_type \in {"embedding", "generation"} THEN 1 ELSE 0

\* Faulty variant: the already-loaded check is missing, every call loads.
load_model_no_loaded_check(ms, lm, client, name, backend_ok) ==
    IF ~HasModel(ms, name) THEN Result(ms, lm, FALSE, "not_found", 0, 0)
    ELSE LET model_config == ConfigOf(ms, name) IN
        IF model_config.provider = "huggingface"
        THEN IF load_huggingface_raises(model_config, backend_ok)
             THEN Result(ms, lm, FALSE, "load_exception",
                         load_huggingface_calls(model_config), 0)
             ELSE Result(ms, PutHandle(lm, name, huggingface_handle(model_config)),
                         TRUE, "loaded", load_huggingface_calls(model_config), 0)
        ELSE IF model_config.provider = "openai"
        THEN IF ~client
             THEN Result(ms, lm, FALSE, "openai_not_initialized", 0, 0)
             ELSE Result(ms, PutHandle(lm, name, openai_handle), TRUE, "loaded", 0, 0)
        ELSE Result(ms, lm, FALSE, "load_exception", 0, 0)

load_model(ms, lm, client, name, backend_ok) ==
    IF ~HasModel(ms, name) THEN Result(ms, lm, FALSE, "not_found", 0, 0)
    ELSE IF name \in DOMAIN lm THEN Result(ms, lm, TRUE, "already_loaded", 0, 0)
    ELSE LET model_config == ConfigOf(ms, name) IN
        IF model_config.provider = "huggingface"
        THEN IF load_huggingface_raises(model_config, backend_ok)
             THEN Result(ms, lm, FALSE, "load_exception",
                         load_huggingface_calls(model_config), 0)
             ELSE Result(ms, PutHandle(lm, name, huggingface_handle(model_config)),
                         TRUE, "loaded", load_huggingface_calls(model_config), 0)
        ELSE IF model_config.provider = "openai"
        THEN IF ~client
             THEN Result(ms, lm, FALSE, "openai_not_initialized", 0, 0)
             ELSE Result(ms, PutHandle(lm, name, openai_handle), TRUE, "loaded", 0, 0)
        \* ModelProvider has no member SENTENCE_TRANSFORMERS: evaluating the
        \* third comparison raises AttributeError, caught by the handler.
        ELSE Result(ms, lm, FALSE, "load_exception", 0, 0)

\* Lines shared by generate_text and generate_embedding: the lazy load of the
\* resolved model when it has no handle yet.
\* Faulty variant: a load that fails leaves a handle behind.
ensure_loaded_keeps_failed_handle(ms, lm, client, name, load_ok) ==
    IF name \notin DOMAIN lm
    THEN LET r == load_model(ms, lm, client, name, load_ok) IN
         IF r.ok THEN r ELSE [r EXCEPT !.loaded = PutHandle(lm, name, openai_handle)]
    ELSE Result(ms, lm, TRUE, "", 0, 0)

\* Faulty variant: the handle check is missing, every dispatch loads again.
ensure_loaded_every_time(ms, lm, client, name, load_ok) ==
    load_model_no_loaded_check(ms, lm, client, name, load_ok)

ensure_loaded(ms, lm, client, name, load_ok) ==
    IF name \notin DOMAIN lm
    THEN load_model(ms, lm, client, name, load_ok)
    ELSE Result(ms, lm, TRUE, "", 0, 0)

\* Model resolution of the two dispatchers.  model_name = "" is a request
\* without a model name (`if not model_name`): the default of the dispatcher's
\* model type is used; a name, given or resolved, must be registered.
\* Faulty variant: an unregistered name falls back to the default model.
resolve_model_fallback(ms, model_name, model_type) ==
    LET default_model == get_default_model(ms, model_type)
        named == model_name # "" /\ HasModel(ms, model_name) IN
    IF ~named /\ default_model = None
    THEN [ok |-> FALSE, msg |-> IF model_name = "" THEN "no_default" ELSE "not_found",
          name |-> model_name]
    ELSE [ok |-> TRUE, msg |-> "",
          name |-> IF named THEN model_name ELSE default_model[1].name]

resolve_model(ms, model_name, model_type) ==
    LET default_model == get_default_model(ms, model_type) IN
    IF model_name = "" /\ default_model = None
    THEN [ok |-> FALSE, msg |-> "no_default", name |-> ""]
    ELSE LET name == IF model_name = "" THEN default_model[1].name ELSE model_name IN
        IF ~HasModel(ms, name)
        THEN [ok |-> FALSE, msg |-> "not_found", name |-> name]
        ELSE [ok |-> TRUE, msg |-> "", name |-> name]

\* load_ok and gen_ok are the outcomes of the backend load and of the
\* provider's generate call, should the dispatcher get that far.
generate_text(ms, lm, client, model_name, load_ok, gen_ok) ==
    LET res == resolve_model(ms, model_name, "generation") IN
    IF ~res.ok
    THEN Result(ms, lm, FALSE, res.msg, 0, 0)
    ELSE LET name == res.name
             ld == ensure_loaded(ms, lm, client, name, load_ok) IN
        IF ~ld.ok
        THEN [Result(ld.models, ld.loaded, FALSE, ld.msg, ld.loads, 0)
                EXCEPT !.model = name]
        ELSE LET provider == ConfigOf(ld.models, name).provider IN
            IF provider = "huggingface"
            THEN [Result(ld.models, ld.loaded, gen_ok,
                         IF gen_ok THEN "generated" ELSE "generate_exception",
                         ld.loads, 1) EXCEPT !.model = name]
            ELSE IF provider = "openai"
            THEN IF ~client
                 THEN [Result(ld.models, ld.loaded, FALSE, "generate_exception",
                              ld.loads, 0) EXCEPT !.model = name]
                 ELSE [Result(ld.models, ld.loaded, gen_ok,
                              IF gen_ok THEN "generated" ELSE "generate_exception",
                              ld.loads, 1) EXCEPT !.model = name]
            ELSE [Result(ld.models, ld.loaded, FALSE, "unsupported_provider",
                         ld.loads, 0) EXCEPT !.model = name]

generate_embedding(ms, lm, client, model_name, load_ok, gen_ok) ==
    LET res == resolve_model(ms, model_name, "embedding") IN
    IF ~res.ok
    THEN Result(ms, lm, FALSE, res.msg, 0, 0)
    ELSE LET name == res.name
             ld == ensure_loaded(ms, lm, client, name, load_ok) IN
        IF ~ld.ok
        THEN [Result(ld.models, ld.loaded, FALSE, ld.msg, ld.loads, 0)
                EXCEPT !.model = name]
        ELSE LET provider == ConfigOf(ld.models, name).provider IN
            IF provider = "huggingface"
            THEN [Result(ld.models, ld.loaded, gen_ok,
                         IF gen_ok THEN "embedded" ELSE "embed_exception",
                         ld.loads, 1) EXCEPT !.model = name]
            ELSE IF provider = "openai"
            THEN IF ~client
                 THEN [Result(ld.models, ld.loaded, FALSE, "embed_exception",
                              ld.loads, 0) EXCEPT !.model = name]
                 ELSE [Result(ld.models, ld.loaded, gen_ok,
                              IF gen_ok THEN "embedded" ELSE "embed_exception",
                              ld.loads, 1) EXCEPT !.model = name]
            \* ModelProvider.SENTENCE_TRANSFORMERS does not exist: the third
            \* comparison raises AttributeError before any embed call.
            ELSE [Result(ld.models, ld.loaded, FALSE, "embed_exception",
                         ld.loads, 0) EXCEPT !.model = name]

----------------------------------------------------------------------------
(* Vector service: input domains *)

\* Collections the backend may hold at once.
MaxCollections == 1

CollNames == {"c1", "c2"}

Ids == {"a", "b"}

VectorDims == {1, 2}

\* The vector_dim of a create request: any int, 0 stands for the
\* non-positive ones.
RequestedDims == {0} \cup VectorDims

\* Vectors of length 1 and 2.
Vectors == {<<1>>, <<2>>, <<1, 1>>}

\* IndexParamsModel: two of the IndexType x MetricType combinations.
IndexParams ==
    {[index_type |-> "HNSW", metric_type |-> "L2"],
     [index_type |-> "IVF_FLAT", metric_type |-> "IP"]}

TopKs == {1, 2}

VectorModels == [id : Ids, vector : Vectors]

\* The `vectors` argument of insert and upsert: one record, or two records
\* with different ids.
Batches ==
    {<<v>> : v \in VectorModels} \cup
    {<<v, w>> : v \in {x \in VectorModels : x.id = "a"},
               w \in {x \in VectorModels : x.id = "b"}}

\* Which backend call of a method raises: 0 for none, k for the k-th call
\* the method makes (no method makes more than four).
Fails == 0..4

----------------------------------------------------------------------------
(* The Milvus backend as pymilvus shows it to the service *)

\* Collection(name, schema) with fields id (primary key) and vector
\* (FLOAT_VECTOR of dim vector_dim): no index (collection.indexes is empty),
\* not loaded into memory, no entities.
NewCollection(vector_dim) ==
    [vector_dim |-> vector_dim, indexes |-> {}, loaded |-> FALSE, entities |-> {}]

PutColl(mv, name, c) == [n \in (DOMAIN mv) \cup {name} |-> IF n = name THEN c ELSE mv[n]]

DelColl(mv, name) == [n \in (DOMAIN mv) \ {name} |-> mv[n]]

\* What a call of the vector service returns and leaves behind: the backend
\* after it, the success flag and message (for the methods that return a
\* bare bool, the flag is that bool), whether a backend call raised, the
\* number of collection.load() calls it issued, and its payload.
VResult(mv, ok, msg, raised, loads) ==
    [milvus |-> mv, ok |-> ok, msg |-> msg, raised |-> raised, loads |-> loads,
     ids |-> <<>>, vector |-> None, names |-> {}]

\* The `except Exception` branch of a method: failure with the method's
\* exception message; what the backend did before the raise stays done.
VRaised(mv, msg, loads) == VResult(mv, FALSE, msg, TRUE, loads)

----------------------------------------------------------------------------
(* VectorDBService: collections and indexes *)

\* vector_dim goes unchecked into FieldSchema(dim=vector_dim); the backend
\* refuses a schema whose dim is not positive when Collection(name, schema)
\* asks for the collection.
create_collection(mv, name, vector_dim, index_params, fail) ==
    IF fail = 1 THEN VRaised(mv, "create_exception", 0)
    ELSE IF name \in DOMAIN mv THEN VResult(mv, FALSE, "already_exists", FALSE, 0)
    ELSE IF fail = 2 \/ vector_dim <= 0 THEN VRaised(mv, "create_exception", 0)
    ELSE LET collection == NewCollection(vector_dim) IN
        IF fail = 3
        THEN VRaised(PutColl(mv, name, collection), "create_exception", 0)
        ELSE VResult(PutColl(mv, name, [collection EXCEPT !.indexes = @ \cup {index_params}]),
                     TRUE, "created", FALSE, 0)

drop_collection(mv, name, fail) ==
    IF fail = 1 THEN VRaised(mv, "drop_exception", 0)
    ELSE IF name \notin DOMAIN mv THEN VResult(mv, FALSE, "does_not_exist", FALSE, 0)
    ELSE IF fail = 2 THEN VRaised(mv, "drop_exception", 0)
    ELSE VResult(DelColl(mv, name), TRUE, "dropped", FALSE, 0)

\* Returns a bare bool; an exception is logged and answered False.
has_collection(mv, name, fail) ==
    IF fail = 1 THEN VRaised(mv, "", 0)
    ELSE VResult(mv, name \in DOMAIN mv, "", FALSE, 0)

\* Faulty variant: the has_index check is missing, an index is added.
create_index_no_index_check(mv, collection_name, index_params, fail) ==
    IF fail = 1 THEN VRaised(mv, "create_index_exception", 0)
    ELSE IF collection_name \notin DOMAIN mv
    THEN VResult(mv, FALSE, "does_not_exist", FALSE, 0)
    ELSE IF fail \in {2, 3, 4} THEN VRaised(mv, "create_index_exception", 0)
    ELSE VResult([mv EXCEPT ![collection_name].indexes = @ \cup {index_params}],
                 TRUE, "index_created", FALSE, 0)

create_index(mv, collection_name, index_params, fail) ==
    IF fail = 1 THEN VRaised(mv, "create_index_exception", 0)
    ELSE IF collection_name \notin DOMAIN mv
    THEN VResult(mv, FALSE, "does_not_exist", FALSE, 0)
    ELSE IF fail \in {2, 3} THEN VRaised(mv, "create_index_exception", 0)
    ELSE IF mv[collection_name].indexes # {}
    THEN VResult(mv, FALSE, "already_has_index", FALSE, 0)
    ELSE IF fail = 4 THEN VRaised(mv, "create_index_exception", 0)
    ELSE VResult([mv EXCEPT ![collection_name].indexes = @ \cup {index_params}],
                 TRUE, "index_created", FALSE, 0)

drop_index(mv, collection_name, fail) ==
    IF fail = 1 THEN VRaised(mv, "drop_index_exception", 0)
    ELSE IF collection_name \notin DOMAIN mv
    THEN VResult(mv, FALSE, "does_not_exist", FALSE, 0)
    ELSE IF fail \in {2, 3} THEN VRaised(mv, "drop_index_exception", 0)
    ELSE IF mv[collection_name].indexes = {}
    THEN VResult(mv, FALSE, "has_no_index", FALSE, 0)
    ELSE IF fail = 4 THEN VRaised(mv, "drop_index_exception", 0)
    ELSE VResult([mv EXCEPT ![collection_name].indexes = {}],
                 TRUE, "index_dropped", FALSE, 0)

\* Returns a bare bool; False for an absent collection and on an exception.
has_index(mv, collection_name, fail) ==
    IF fail = 1 THEN VRaised(mv, "", 0)
    ELSE IF collection_name \notin DOMAIN mv THEN VResult(mv, FALSE, "", FALSE, 0)
    ELSE IF fail \in {2, 3} THEN VRaised(mv, "", 0)
    ELSE VResult(mv, mv[collection_name].indexes # {}, "", FALSE, 0)

\* Returns the list of names; an exception is logged and answered [].
list_collections(mv, fail) ==
    IF fail = 1 THEN [VRaised(mv, "", 0) EXCEPT !.names = {}]
    ELSE [VResult(mv, TRUE, "", FALSE, 0) EXCEPT !.names = DOMAIN mv]

\* Returns CollectionInfoModel or None (ok is "not None").  For an existing
\* collection the method reads collection.description.get(...): description
\* is a str, so the read raises AttributeError and None is returned.
get_collection_info(mv, name, fail) ==
    IF fail = 1 THEN VRaised(mv, "", 0)
    ELSE IF name \notin DOMAIN mv THEN VResult(mv, FALSE, "", FALSE, 0)
    ELSE VRaised(mv, "", 0)

\* Returns CollectionStatsModel or None (ok is "not None"); loads the
\* collection before it reads num_entities.
get_collection_stats(mv, name, fail) ==
    IF fail = 1 THEN VRaised(mv, "", 0)
    ELSE IF name \notin DOMAIN mv THEN VResult(mv, FALSE, "", FALSE, 0)
    ELSE IF fail = 2 THEN VRaised(mv, "", 0)
    ELSE IF fail = 3 THEN VRaised(mv, "", 1)
    ELSE LET warm == [mv EXCEPT ![name].loaded = TRUE] IN
        IF fail = 4 THEN VRaised(warm, "", 1)
        ELSE VResult(warm, TRUE, "", FALSE, 1)

\* _connect succeeded at construction (with no connection every backend call
\* raises, which `fail` covers), so health_check goes on to list_collections.
health_check(mv, fail) ==
    IF fail = 1 THEN VRaised(mv, "health_exception", 0)
    ELSE VResult(mv, TRUE, "healthy", FALSE, 0)

compact(mv, collection_name, fail) ==
    IF fail = 1 THEN VRaised(mv, "compact_exception", 0)
    ELSE IF collection_name \notin DOMAIN mv
    THEN VResult(mv, FALSE, "does_not_exist", FALSE, 0)
    ELSE IF fail \in {2, 3} THEN VRaised(mv, "compact_exception", 0)
    ELSE VResult(mv, TRUE, "compacted", FALSE, 0)

----------------------------------------------------------------------------
(* VectorDBService: records *)

BatchIds(vectors) == [i \in 1..Len(vectors) |-> vectors[i].id]

BatchEntities(vectors) == {vectors[i] : i \in 1..Len(vectors)}

\* The backend checks every vector against the dim of the schema's vector
\* field and raises on a mismatch.
DimMismatch(c, vectors) == \E i \in 1..Len(vectors) : Len(vectors[i].vector) # c.vector_dim

\* Faulty variant: the batch is reported as inserted but not written.
insert_unwritten(mv, collection_name, vectors, fail) ==
    IF fail = 1 THEN VRaised(mv, "insert_exception", 0)
    ELSE IF collection_name \notin DOMAIN mv
    THEN VResult(mv, FALSE, "does_not_exist", FALSE, 0)
    ELSE IF fail \in {2, 3} \/ DimMismatch(mv[collection_name], vectors)
    THEN VRaised(mv, "insert_exception", 0)
    ELSE [VResult(mv, TRUE, "inserted", FALSE, 0) EXCEPT !.ids = BatchIds(vectors)]

\* collection.insert appends entities: it does not look for an entity with
\* the same primary key, so an id can be stored with more than one vector.
insert(mv, collection_name, vectors, fail) ==
    IF fail = 1 THEN VRaised(mv, "insert_exception", 0)
    ELSE IF collection_name \notin DOMAIN mv
    THEN VResult(mv, FALSE, "does_not_exist", FALSE, 0)
    ELSE IF fail \in {2, 3} \/ DimMismatch(mv[collection_name], vectors)
    THEN VRaised(mv, "insert_exception", 0)
    ELSE [VResult([mv EXCEPT ![collection_name].entities = @ \cup BatchEntities(vectors)],
                  TRUE, "inserted", FALSE, 0)
            EXCEPT !.ids = BatchIds(vectors)]

\* collection.upsert replaces the entities that have the ids of the batch.
upsert(mv, collection_name, vectors, fail) ==
    IF fail = 1 THEN VRaised(mv, "upsert_exception", 0)
    ELSE IF collection_name \notin DOMAIN mv
    THEN VResult(mv, FALSE, "does_not_exist", FALSE, 0)
    ELSE IF fail \in {2, 3} \/ DimMismatch(mv[collection_name], vectors)
    THEN VRaised(mv, "upsert_exception", 0)
    ELSE LET batch == BatchEntities(vectors)
             kept == {e \in mv[collection_name].entities :
                         \A b \in batch : b.id # e.id} IN
        [VResult([mv EXCEPT ![collection_name].entities = kept \cup batch],
                 TRUE, "upserted", FALSE, 0)
            EXCEPT !.ids = BatchIds(vectors)]

delete(mv, collection_name, ids, fail) ==
    IF fail = 1 THEN VRaised(mv, "delete_exception", 0)
    ELSE IF collection_name \notin DOMAIN mv
    THEN VResult(mv, FALSE, "does_not_exist", FALSE, 0)
    ELSE IF fail \in {2, 3} THEN VRaised(mv, "delete_exception", 0)
    ELSE VResult([mv EXCEPT ![collection_name].entities = {e \in @ : e.id \notin ids}],
                 TRUE, "deleted", FALSE, 0)

\* Squared L2 distance of two vectors of the same length.
RECURSIVE SqDist(_, _)
SqDist(u, v) ==
    IF u = <<>> THEN 0
    ELSE LET d == IF Head(u) > Head(v) THEN Head(u) - Head(v) ELSE Head(v) - Head(u)
         IN d * d + SqDist(Tail(u), Tail(v))

\* collection.search(data=[query_vector], limit=topk): the ids of the limit
\* entities nearest to the query, nearest first.
RECURSIVE Hits(_, _, _)
Hits(entities, query_vector, limit) ==
    IF limit = 0 \/ entities = {} THEN <<>>
    ELSE LET hit == CHOOSE e \in entities :
                        \A f \in entities :
                            SqDist(e.vector, query_vector) <= SqDist(f.vector, query_vector)
         IN <<hit.id>> \o Hits(entities \ {hit}, query_vector, limit - 1)

\* Faulty variant: options.topk is not passed on as the limit of the backend
\* search, which then answers with every entity.
search_no_limit(mv, collection_name, query_vector, topk, fail) ==
    IF fail = 1 THEN VRaised(mv, "search_exception", 0)
    ELSE IF collection_name \notin DOMAIN mv
    THEN VResult(mv, FALSE, "does_not_exist", FALSE, 0)
    ELSE IF fail = 2 THEN VRaised(mv, "search_exception", 0)
    ELSE IF fail = 3 THEN VRaised(mv, "search_exception", 1)
    ELSE LET warm == [mv EXCEPT ![collection_name].loaded = TRUE] IN
        IF fail = 4 \/ Len(query_vector) # mv[collection_name].vector_dim
        THEN VRaised(warm, "search_exception", 1)
        ELSE [VResult(warm, TRUE, "found", FALSE, 1)
                EXCEPT !.ids = Hits(mv[collection_name].entities, query_vector,
                                    Cardinality(mv[collection_name].entities))]

\* The backend raises for a query vector that has not the dim of the schema.
search(mv, collection_name, query_vector, topk, fail) ==
    IF fail = 1 THEN VRaised(mv, "search_exception", 0)
    ELSE IF collection_name \notin DOMAIN mv
    THEN VResult(mv, FALSE, "does_not_exist", FALSE, 0)
    ELSE IF fail = 2 THEN VRaised(mv, "search_exception", 0)
    ELSE IF fail = 3 THEN VRaised(mv, "search_exception", 1)
    ELSE LET warm == [mv EXCEPT ![collection_name].loaded = TRUE] IN
        IF fail = 4 \/ Len(query_vector) # mv[collection_name].vector_dim
        THEN VRaised(warm, "search_exception", 1)
        ELSE [VResult(warm, TRUE, "found", FALSE, 1)
                EXCEPT !.ids = Hits(mv[collection_name].entities, query_vector, topk)]

\* collection.query(expr="id == '<id>'"): the entities stored under the id.
Matches(c, id) == {e \in c.entities : e.id = id}

\* `first` is the vector of the entity the backend lists first in the query
\* result (result[0]) when the id is stored.
get_by_id(mv, collection_name, id, first, fail) ==
    IF fail = 1 THEN VRaised(mv, "get_exception", 0)
    ELSE IF collection_name \notin DOMAIN mv
    THEN VResult(mv, FALSE, "does_not_exist", FALSE, 0)
    ELSE IF fail = 2 THEN VRaised(mv, "get_exception", 0)
    ELSE IF fail = 3 THEN VRaised(mv, "get_exception", 1)
    ELSE LET warm == [mv EXCEPT ![collection_name].loaded = TRUE] IN
        IF fail = 4 THEN VRaised(warm, "get_exception", 1)
        ELSE IF Matches(mv[collection_name], id) = {}
        THEN VResult(warm, FALSE, "vector_not_found", FALSE, 1)
        ELSE [VResult(warm, TRUE, "retrieved", FALSE, 1)
                EXCEPT !.ids = <<id>>, !.vector = Some(first)]

----------------------------------------------------------------------------
(* MilvusClient: the wrapper's methods return a bare bool *)

\* What a call of the wrapper returns and leaves behind: the backend, the
\* cache and the connected flag after it, the returned bool, and whether a
\* backend call raised.
CResult(mv, cache, conn, ok, raised) ==
    [milvus |-> mv, collections |-> cache, connected |-> conn, ok |-> ok, raised |-> raised]

\* The index create_collection gives the vector field.
ClientIndex == [index_type |-> "HNSW", metric_type |-> "L2"]

MilvusClient_connect(mv, cache, fail) == CResult(mv, cache, fail = 0, fail = 0, fail # 0)

\* disconnect returns nothing; when connections.disconnect raises, the flag
\* stays as it was.
MilvusClient_disconnect(mv, cache, conn, fail) ==
    IF fail = 1 THEN CResult(mv, cache, conn, FALSE, TRUE)
    ELSE CResult(mv, cache, FALSE, TRUE, FALSE)

\* An existing collection is answered True.  has_vector: the schema dict
\* names a vector field, which then gets the index.
MilvusClient_create_collection(mv, cache, conn, collection_name, vector_dim, has_vector, fail) ==
    IF ~conn THEN CResult(mv, cache, conn, FALSE, FALSE)
    ELSE IF fail = 1 THEN CResult(mv, cache, conn, FALSE, TRUE)
    ELSE IF collection_name \in DOMAIN mv THEN CResult(mv, cache, conn, TRUE, FALSE)
    ELSE IF fail = 2 THEN CResult(mv, cache, conn, FALSE, TRUE)
    ELSE LET collection == NewCollection(vector_dim) IN
        IF ~has_vector THEN CResult(PutColl(mv, collection_name, collection), cache, conn, TRUE, FALSE)
        ELSE IF fail = 3
        THEN CResult(PutColl(mv, collection_name, collection), cache, conn, FALSE, TRUE)
        ELSE CResult(PutColl(mv, collection_name, [collection EXCEPT !.indexes = {ClientIndex}]),
                     cache, conn, TRUE, FALSE)

\* Faulty variant: the cached Collection object of the dropped collection is
\* not deleted.
MilvusClient_drop_collection_keeps_cache(mv, cache, conn, collection_name, fail) ==
    IF ~conn THEN CResult(mv, cache, conn, FALSE, FALSE)
    ELSE IF fail = 1 THEN CResult(mv, cache, conn, FALSE, TRUE)
    ELSE IF collection_name \notin DOMAIN mv THEN CResult(mv, cache, conn, TRUE, FALSE)
    ELSE IF fail = 2 THEN CResult(mv, cache, conn, FALSE, TRUE)
    ELSE CResult(DelColl(mv, collection_name), cache, conn, TRUE, FALSE)

\* A missing collection is answered True as well: nothing is dropped and
\* nothing is reported.
MilvusClient_drop_collection(mv, cache, conn, collection_name, fail) ==
    IF ~conn THEN CResult(mv, cache, conn, FALSE, FALSE)
    ELSE IF fail = 1 THEN CResult(mv, cache, conn, FALSE, TRUE)
    ELSE IF collection_name \notin DOMAIN mv THEN CResult(mv, cache, conn, TRUE, FALSE)
    ELSE IF fail = 2 THEN CResult(mv, cache, conn, FALSE, TRUE)
    ELSE CResult(DelColl(mv, collection_name), DelColl(cache, collection_name), conn,
                 TRUE, FALSE)

MilvusClient_has_collection(mv, cache, conn, collection_name, fail) ==
    IF ~conn THEN CResult(mv, cache, conn, FALSE, FALSE)
    ELSE IF fail = 1 THEN CResult(mv, cache, conn, FALSE, TRUE)
    ELSE CResult(mv, cache, conn, collection_name \in DOMAIN mv, FALSE)

\* A Collection object is built from the backend's collection of that name
\* and keeps the schema it was built with.
CollectionObject(c) == [vector_dim |-> c.vector_dim]

\* The object is bound to the collection it was built from: the backend
\* refuses its calls once that collection is gone or has been replaced by one
\* of another schema.
Stale(mv, collection_name, collection) ==
    \/ collection_name \notin DOMAIN mv
    \/ CollectionObject(mv[collection_name]) # collection

\* _get_collection: the cached object when there is one, without asking the
\* backend; otherwise a new object for an existing collection, which is
\* cached, and None for a missing one or when a backend call raises.
MilvusClient_get_collection(mv, cache, collection_name, fail) ==
    IF collection_name \in DOMAIN cache
    THEN [collections |-> cache, collection |-> Some(cache[collection_name]), raised |-> FALSE]
    ELSE IF fail = 1 THEN [collections |-> cache, collection |-> None, raised |-> TRUE]
    ELSE IF collection_name \notin DOMAIN mv
    THEN [collections |-> cache, collection |-> None, raised |-> FALSE]
    ELSE IF fail = 2 THEN [collections |-> cache, collection |-> None, raised |-> TRUE]
    ELSE LET collection == CollectionObject(mv[collection_name]) IN
        [collections |-> PutColl(cache, collection_name, collection),
         collection |-> Some(collection), raised |-> FALSE]

\* insert_vectors: collection.insert, then collection.flush (fail = 4: the
\* flush raises when the entities are written already).
MilvusClient_insert_vectors(mv, cache, conn, collection_name, data, fail) ==
    IF ~conn THEN CResult(mv, cache, conn, FALSE, FALSE)
    ELSE LET g == MilvusClient_get_collection(mv, cache, collection_name, fail) IN
        IF g.collection = None THEN CResult(mv, g.collections, conn, FALSE, g.raised)
        ELSE IF \/ fail = 3
                \/ Stale(mv, collection_name, g.collection[1])
                \/ DimMismatch(mv[collection_name], data)
        THEN CResult(mv, g.collections, conn, FALSE, TRUE)
        ELSE LET written == [mv EXCEPT ![collection_name].entities =
                                            @ \cup BatchEntities(data)] IN
            CResult(written, g.collections, conn, fail # 4, fail = 4)

\* search_vectors returns the list of hits, [] on every failure: ok is
\* "the list is not empty".
MilvusClient_search_vectors(mv, cache, conn, collection_name, query_vector, top_k, fail) ==
    IF ~conn THEN CResult(mv, cache, conn, FALSE, FALSE)
    ELSE LET g == MilvusClient_get_collection(mv, cache, collection_name, fail) IN
        IF g.collection = None THEN CResult(mv, g.collections, conn, FALSE, g.raised)
        ELSE IF fail = 3 \/ Stale(mv, collection_name, g.collection[1])
        THEN CResult(mv, g.collections, conn, FALSE, TRUE)
        ELSE LET warm == [mv EXCEPT ![collection_name].loaded = TRUE] IN
            IF fail = 4 \/ Len(query_vector) # mv[collection_name].vector_dim
            THEN CResult(warm, g.collections, conn, FALSE, TRUE)
            ELSE CResult(warm, g.collections, conn,
                         Hits(mv[collection_name].entities, query_vector, top_k) # <<>>,
                         FALSE)

----------------------------------------------------------------------------
\* The record of a call: the operation, the name and the is_default field of
\* its request, what it returned (Result), and two facts about the state it
\* started from: whether the named model had a handle, and which models were
\* default.
Call(op, name, is_default, r) ==
    [op |-> op, name |-> name, is_default |-> is_default,
     ok |-> r.ok, msg |-> r.msg, loads |-> r.loads, gens |-> r.gens, model |-> r.model,
     was_loaded |-> is_model_loaded(loaded_models, name),
     defaults_before |-> {models[i].name : i \in {j \in 1..Len(models) : models[j].is_default}}]

NoCall ==
    [op |-> "init", name |-> "", is_default |-> None,
     ok |-> TRUE, msg |-> "", loads |-> 0, gens |-> 0, model |-> "",
     was_loaded |-> FALSE, defaults_before |-> {}]

\* The record of a vector-service call: the operation, the collection it
\* named, the id (get_by_id) and topk (search) of its request, what it
\* returned (VResult), and two facts about the backend it started from:
\* whether the collection existed and whether it had been loaded into memory.
\* vector_dim is the dim a create_collection request asked for.
VCall(op, name, id, topk, r) ==
    [op |-> op, name |-> name, id |-> id, topk |-> topk, vector_dim |-> 0,
     ok |-> r.ok, msg |-> r.msg, raised |-> r.raised, loads |-> r.loads,
     ids |-> r.ids, vector |-> r.vector, names |-> r.names,
     existed |-> name \in DOMAIN milvus,
     was_warm |-> name \in DOMAIN milvus /\ milvus[name].loaded]

NoVCall ==
    [op |-> "init", name |-> "", id |-> "", topk |-> 0, vector_dim |-> 0,
     ok |-> TRUE, msg |-> "", raised |-> FALSE, loads |-> 0,
     ids |-> <<>>, vector |-> None, names |-> {},
     existed |-> FALSE, was_warm |-> FALSE]

\* No register or update call is between its two steps.
NotRunning == [op |-> "", name |-> ""]

NoRace == [name |-> "", members |-> 0, done |-> 0, calls |-> 0, oks |-> 0, first_ok |-> FALSE]

Init ==
    /\ models = <<>>
    /\ loaded_models = <<>>
    /\ openai_client \in BOOLEAN
    /\ last = NoCall
    /\ pending = [n \in Names |-> 0]
    /\ race = NoRace
    /\ milvus = <<>>
    /\ vlast = NoVCall
    /\ connected = FALSE
    /\ collections = <<>>
    /\ running = NotRunning

\* A direct call of a service method: its result becomes the service state.
Apply(r, op, name, is_default) ==
    /\ models' = r.models
    /\ loaded_models' = r.loaded
    /\ last' = Call(op, name, is_default, r)
    /\ race' = NoRace
    /\ UNCHANGED <<openai_client, pending, milvus, vlast, connected, collections, running>>

RegisterModel ==
    \E req \in RegisterRequests :
        Apply(register_model(models, loaded_models, req), "register", req.name, Some(req.is_default))

UnloadModel ==
    \E name \in Names :
        Apply(unload_model(models, loaded_models, name), "unload", name, None)

UpdateModel ==
    \E req \in UpdateRequests :
        Apply(update_model(models, loaded_models, req), "update", req.name, req.is_default)

UnregisterModel ==
    \E name \in Names :
        Apply(unregister_model(models, loaded_models, name), "unregister", name, None)

LoadModel ==
    \E name \in Names, backend_ok \in BOOLEAN :
        Apply(load_model(models, loaded_models, openai_client, name, backend_ok),
              "load", name, None)

GenerateText ==
    \E model_name \in Names \cup {""}, load_ok \in BOOLEAN, gen_ok \in BOOLEAN :
        Apply(generate_text(models, loaded_models, openai_client, model_name,
                            load_ok, gen_ok),
              "generate_text", model_name, None)

GenerateEmbedding ==
    \E model_name \in Names \cup {""}, load_ok \in BOOLEAN, gen_ok \in BOOLEAN :
        Apply(generate_embedding(models, loaded_models, openai_client, model_name,
                                 load_ok, gen_ok),
              "generate_embedding", model_name, None)

\* The number of LoadModel RPCs in flight.
RECURSIVE InFlight(_, _)
InFlight(p, S) ==
    IF S = {} THEN 0
    ELSE LET n == CHOOSE x \in S : TRUE IN p[n] + InFlight(p, S \ {n})

\* A client sends a LoadModel RPC: it is in flight until the event loop runs
\* its handler.  A group of calls for one name that are all in flight while
\* that name is registered and has no handle yet is followed in `race`.
RaceStarts(name) ==
    /\ HasModel(models, name)
    /\ ~is_model_loaded(loaded_models, name)
    /\ pending[name] > 0
    /\ race.done = 0
    /\ race.name \in {"", name}

CallLoadModel(name) ==
    /\ InFlight(pending, Names) < MaxInFlight
    /\ pending' = [pending EXCEPT ![name] = @ + 1]
    /\ race' = IF RaceStarts(name)
               THEN [NoRace EXCEPT !.name = name, !.members = pending[name] + 1]
               ELSE NoRace
    /\ UNCHANGED <<models, loaded_models, openai_client, last, milvus, vlast,
                   connected, collections, running>>

\* ModelServiceImpl.LoadModel: the coroutine calls load_model and returns
\* without awaiting, so the whole handler is one step of the event loop.
LoadModelHandler(name, backend_ok) ==
    /\ pending[name] > 0
    /\ LET r == load_model(models, loaded_models, openai_client, name, backend_ok)
       IN /\ models' = r.models
          /\ loaded_models' = r.loaded
          /\ last' = Call("load", name, None, r)
          /\ race' = IF race.name = name
                     THEN [race EXCEPT !.done = @ + 1,
                                       !.calls = @ + r.loads,
                                       !.oks = @ + (IF r.ok THEN 1 ELSE 0),
                                       !.first_ok = IF race.done = 0 THEN r.ok ELSE @]
                     ELSE NoRace
    /\ pending' = [pending EXCEPT ![name] = @ - 1]
    /\ UNCHANGED <<openai_client, milvus, vlast, connected, collections, running>>

SendLoad == \E name \in Names : CallLoadModel(name)

RunLoad == \E name \in Names, backend_ok \in BOOLEAN : LoadModelHandler(name, backend_ok)

Next ==
    \/ RegisterModel
    \/ UpdateModel
    \/ UnregisterModel
    \/ LoadModel
    \/ UnloadModel
    \/ GenerateText
    \/ GenerateEmbedding

Spec == Init /\ [][Next]_vars

\* The service behind its RPC front: registry calls run to completion one at a
\* time, LoadModel RPCs may be in flight together.
NextConc ==
    \/ RegisterModel
    \/ UnregisterModel
    \/ UnloadModel
    \/ SendLoad
    \/ RunLoad

SpecConc == Init /\ [][NextConc]_vars

----------------------------------------------------------------------------
(* Vector service calls.  The handlers of VectorServiceImpl are coroutines *)
(* that call the synchronous VectorDBService without awaiting: each call   *)
(* is one step.                                                            *)

VApply(r, op, name, id, topk) ==
    /\ milvus' = r.milvus
    /\ vlast' = VCall(op, name, id, topk, r)
    /\ UNCHANGED <<models, loaded_models, openai_client, last, pending, race,
                   connected, collections, running>>

HealthCheck ==
    \E fail \in 0..1 :
        VApply(health_check(milvus, fail), "health_check", "", "", 0)

CreateCollection ==
    \E name \in CollNames, vector_dim \in RequestedDims, index_params \in IndexParams,
       fail \in 0..3 :
        /\ name \in DOMAIN milvus \/ Cardinality(DOMAIN milvus) < MaxCollections
        /\ LET r == create_collection(milvus, name, vector_dim, index_params, fail) IN
            /\ milvus' = r.milvus
            /\ vlast' = [VCall("create_collection", name, "", 0, r)
                            EXCEPT !.vector_dim = vector_dim]
            /\ UNCHANGED <<models, loaded_models, openai_client, last, pending, race,
                           connected, collections, running>>

DropCollection ==
    \E name \in CollNames, fail \in 0..2 :
        VApply(drop_collection(milvus, name, fail), "drop_collection", name, "", 0)

HasCollection ==
    \E name \in CollNames, fail \in 0..1 :
        VApply(has_collection(milvus, name, fail), "has_collection", name, "", 0)

ListCollections ==
    \E fail \in 0..1 :
        VApply(list_collections(milvus, fail), "list_collections", "", "", 0)

GetCollectionInfo ==
    \E name \in CollNames, fail \in 0..1 :
        VApply(get_collection_info(milvus, name, fail), "get_collection_info", name, "", 0)

GetCollectionStats ==
    \E name \in CollNames, fail \in Fails :
        VApply(get_collection_stats(milvus, name, fail), "get_collection_stats", name, "", 0)

CreateIndex ==
    \E name \in CollNames, index_params \in IndexParams, fail \in Fails :
        VApply(create_index(milvus, name, index_params, fail), "create_index", name, "", 0)

DropIndex ==
    \E name \in CollNames, fail \in Fails :
        VApply(drop_index(milvus, name, fail), "drop_index", name, "", 0)

HasIndex ==
    \E name \in CollNames, fail \in 0..3 :
        VApply(has_index(milvus, name, fail), "has_index", name, "", 0)

Insert ==
    \E name \in CollNames, vectors \in Batches, fail \in 0..3 :
        VApply(insert(milvus, name, vectors, fail), "insert", name, "", 0)

Upsert ==
    \E name \in CollNames, vectors \in Batches, fail \in 0..3 :
        VApply(upsert(milvus, name, vectors, fail), "upsert", name, "", 0)

Delete ==
    \E name \in CollNames, ids \in (SUBSET Ids) \ {{}}, fail \in 0..3 :
        VApply(delete(milvus, name, ids, fail), "delete", name, "", 0)

Search ==
    \E name \in CollNames, query_vector \in Vectors, topk \in TopKs, fail \in Fails :
        VApply(search(milvus, name, query_vector, topk, fail), "search", name, "", topk)

\* The entity the backend lists first is any of those stored under the id.
GetById ==
    \E name \in CollNames, id \in Ids, first \in Vectors, fail \in Fails :
        /\ name \in DOMAIN milvus /\ Matches(milvus[name], id) # {} =>
              [id |-> id, vector |-> first] \in milvus[name].entities
        /\ VApply(get_by_id(milvus, name, id, first, fail), "get_by_id", name, id, 0)

Compact ==
    \E name \in CollNames, fail \in 0..3 :
        VApply(compact(milvus, name, fail), "compact", name, "", 0)

NextVec ==
    \/ HealthCheck
    \/ CreateCollection
    \/ DropCollection
    \/ HasCollection
    \/ ListCollections
    \/ GetCollectionInfo
    \/ GetCollectionStats
    \/ CreateIndex
    \/ DropIndex
    \/ HasIndex
    \/ Insert
    \/ Upsert
    \/ Delete
    \/ Search
    \/ GetById
    \/ Compact

\* The vector service does not use the model service: its calls are explored
\* from the initial state without an OpenAI client.
InitVec == Init /\ ~openai_client

SpecVec == InitVec /\ [][NextVec]_vars

----------------------------------------------------------------------------
(* MilvusClient calls, as VectorServiceImpl of                              *)
(* ai_grpc_services_with_milvus.py makes them: one call is one step.       *)

CApply(r, op, name) ==
    /\ milvus' = r.milvus
    /\ collections' = r.collections
    /\ connected' = r.connected
    /\ vlast' = [NoVCall EXCEPT !.op = op, !.name = name, !.ok = r.ok,
                                !.raised = r.raised,
                                !.existed = name \in DOMAIN milvus,
                                !.was_warm = name \in DOMAIN milvus /\ milvus[name].loaded]
    /\ UNCHANGED <<models, loaded_models, openai_client, last, pending, race, running>>

ClientConnect ==
    \E fail \in 0..1 :
        CApply(MilvusClient_connect(milvus, collections, fail), "client_connect", "")

ClientDisconnect ==
    \E fail \in 0..1 :
        CApply(MilvusClient_disconnect(milvus, collections, connected, fail),
               "client_disconnect", "")

ClientCreateCollection ==
    \E name \in CollNames, vector_dim \in VectorDims, has_vector \in BOOLEAN, fail \in 0..3 :
        /\ name \in DOMAIN milvus \/ Cardinality(DOMAIN milvus) < MaxCollections
        /\ CApply(MilvusClient_create_collection(milvus, collections, connected, name,
                                                 vector_dim, has_vector, fail),
                  "client_create_collection", name)

ClientDropCollection ==
    \E name \in CollNames, fail \in 0..2 :
        CApply(MilvusClient_drop_collection(milvus, collections, connected, name, fail),
               "client_drop_collection", name)

ClientHasCollection ==
    \E name \in CollNames, fail \in 0..1 :
        CApply(MilvusClient_has_collection(milvus, collections, connected, name, fail),
               "client_has_collection", name)

ClientInsertVectors ==
    \E name \in CollNames, data \in Batches, fail \in Fails :
        CApply(MilvusClient_insert_vectors(milvus, collections, connected, name, data, fail),
               "client_insert_vectors", name)

ClientSearchVectors ==
    \E name \in CollNames, query_vector \in Vectors, top_k \in TopKs, fail \in Fails :
        CApply(MilvusClient_search_vectors(milvus, collections, connected, name,
                                           query_vector, top_k, fail),
               "client_search_vectors", name)

NextClient ==
    \/ ClientConnect
    \/ ClientDisconnect
    \/ ClientCreateCollection
    \/ ClientDropCollection
    \/ ClientHasCollection
    \/ ClientInsertVectors
    \/ ClientSearchVectors

SpecClient == InitVec /\ [][NextClient]_vars

----------------------------------------------------------------------------
(* Helpers of the properties *)

Registered == {models[i].name : i \in 1..Len(models)}

DefaultsOfType(t) ==
    {i \in 1..Len(models) : models[i].model_type = t /\ models[i].is_default}

IsFlipCall == last.op \in {"register", "update"} /\ last.ok

----------------------------------------------------------------------------
\* C1: in every state reachable by register, update and unregister calls (and
\* the other calls of the service), each model type has at most one registered
\* descriptor with is_default = TRUE.
C1_AtMostOneDefaultPerType ==
    \A t \in ModelTypes : Cardinality(DefaultsOfType(t)) <= 1

\* A second default of a type has just been installed by an update, while the
\* first default of that type is still registered.
C1_Witness ==
    /\ last.op = "update" /\ last.ok /\ last.is_default = Some(TRUE)
    /\ \E n \in last.defaults_before \ {last.name} :
          /\ n \in Registered
          /\ ConfigOf(models, n).model_type = ConfigOf(models, last.name).model_type

\* C2: after a successful register or update that leaves model B default with
\* model type t, get_default_model(t) returns B, and every other descriptor of
\* type t that was default before the call is no longer default.
C2_NewDefaultWins ==
    (IsFlipCall /\ ConfigOf(models, last.name).is_default) =>
        LET B == ConfigOf(models, last.name) IN
        /\ get_default_model(models, B.model_type) = Some(B)
        /\ \A n \in (last.defaults_before \ {last.name}) \cap Registered :
              ConfigOf(models, n).model_type = B.model_type
                  => ~ConfigOf(models, n).is_default

\* Model B was registered as default of a type whose earlier-registered default
\* A is still in the registry.
C2_Witness ==
    /\ last.op = "register" /\ last.ok /\ last.is_default = Some(TRUE)
    /\ Len(models) = 2 /\ models[2].name = last.name
    /\ models[1].name \in last.defaults_before
    /\ models[1].model_type = models[2].model_type

\* C3: a successful register or update that leaves a model default with model
\* type t leaves the is_default flag of every descriptor of another model type
\* as it was: a model of another type that was default before is default after.
C3_DefaultScopedPerType ==
    (IsFlipCall /\ ConfigOf(models, last.name).is_default) =>
        \A n \in (last.defaults_before \ {last.name}) \cap Registered :
            ConfigOf(models, n).model_type # ConfigOf(models, last.name).model_type
                => ConfigOf(models, n).is_default

\* C4: a register call for a name that is already registered fails with the
\* conflict message and leaves the registry (the existing descriptor and all
\* is_default flags) and the loaded handles as they were, whatever is_default
\* the rejected request carries; and a register call fails in no other case.
C4_DuplicateRegisterChangesNothing ==
    [][last'.op = "register" =>
        IF last'.name \in Registered
        THEN /\ ~last'.ok /\ last'.msg = "already_registered"
             /\ models' = models /\ loaded_models' = loaded_models
        ELSE last'.ok]_vars

\* A request with is_default = TRUE was rejected for a name that is registered
\* and loaded, while another model is the default.
C4_Witness ==
    /\ last.op = "register" /\ ~last.ok /\ last.is_default = Some(TRUE)
    /\ last.name \in Registered /\ last.was_loaded
    /\ \E i \in 1..Len(models) : models[i].name # last.name /\ models[i].is_default

C6_LoadIdempotent ==
    [][(last'.op = "load" /\ is_model_loaded(loaded_models, last'.name)) =>
        /\ last'.ok /\ last'.loads = 0
        /\ loaded_models' = loaded_models /\ models' = models]_vars

\* load_model was called for a model that was loaded by an earlier call.
C6_Witness ==
    /\ last.op = "load" /\ last.ok /\ last.was_loaded /\ last.loads = 0
    /\ is_model_loaded(loaded_models, last.name)

\* C7: after a successful update_model(name) no handle for name exists, and
\* in every state every handle is the one a load of the current descriptor
\* produces: no handle created from a descriptor as it was before an update
\* stays in place.
C7_UpdateInvalidatesHandle ==
    /\ (last.op = "update" /\ last.ok) => ~is_model_loaded(loaded_models, last.name)
    /\ \A n \in DOMAIN loaded_models :
          /\ HasModel(models, n)
          /\ loaded_models[n].provider = ConfigOf(models, n).provider
          /\ loaded_models[n].provider = "huggingface"
                => loaded_models[n].model_type = ConfigOf(models, n).model_type

\* A loaded model was updated with a new provider or model type.
C7_Witness ==
    /\ last.op = "update" /\ last.ok /\ last.was_loaded
    /\ ~is_model_loaded(loaded_models, last.name)
    /\ ConfigOf(models, last.name).provider = "custom"

\* C8: unregister_model of a registered name succeeds and leaves neither a
\* descriptor (get_model returns None) nor a handle for it; unregister_model of
\* an unregistered name fails with not-found and changes nothing.
C8_UnregisterRemovesHandleAndDescriptor ==
    [][last'.op = "unregister" =>
        IF HasModel(models, last'.name)
        THEN /\ last'.ok
             /\ get_model(models', last'.name) = None
             /\ ~is_model_loaded(loaded_models', last'.name)
        ELSE /\ ~last'.ok /\ last'.msg = "not_found"
             /\ models' = models /\ loaded_models' = loaded_models]_vars

\* A loaded model was unregistered.
C8_Witness ==
    /\ last.op = "unregister" /\ last.ok /\ last.was_loaded
    /\ get_model(models, last.name) = None

DispatchType(op) == IF op = "generate_text" THEN "generation" ELSE "embedding"

IsDispatch(op) == op \in {"generate_text", "generate_embedding"}

\* C9: generate_text (generate_embedding) without a model name, when no
\* registered descriptor of type generation (embedding) is default, fails with
\* the no-default error, loads nothing and invokes no provider backend.
C9_NoDefaultFails ==
    [][(/\ IsDispatch(last'.op) /\ last'.name = ""
        /\ DefaultsOfType(DispatchType(last'.op)) = {}) =>
        /\ ~last'.ok /\ last'.msg = "no_default"
        /\ last'.loads = 0 /\ last'.gens = 0
        /\ loaded_models' = loaded_models /\ models' = models]_vars

\* generate_embedding without a model name failed for want of an embedding
\* default while a loadable generation model is the default.
C9_Witness ==
    /\ last.op = "generate_embedding" /\ last.name = "" /\ last.msg = "no_default"
    /\ \E i \in DefaultsOfType("generation") : models[i].provider = "huggingface"

\* C10: generate_text / generate_embedding with an explicit model name that is
\* not registered fails with the not-found error: it does not fall back to the
\* default model, loads nothing and invokes no provider backend.
C10_UnknownModelFails ==
    [][(/\ IsDispatch(last'.op) /\ last'.name # ""
        /\ ~HasModel(models, last'.name)) =>
        /\ ~last'.ok /\ last'.msg = "not_found"
        /\ last'.loads = 0 /\ last'.gens = 0
        /\ loaded_models' = loaded_models /\ models' = models]_vars

\* generate_text named an unregistered model while a loadable generation
\* default was registered.
C10_Witness ==
    /\ last.op = "generate_text" /\ last.name # "" /\ last.msg = "not_found"
    /\ ~HasModel(models, last.name)
    /\ \E i \in DefaultsOfType("generation") : models[i].provider = "huggingface"

\* The messages with which load_model reports a failed load of a registered
\* model.
LoadFailures == {"load_exception", "openai_not_initialized"}

\* C11: a dispatch on a registered model without a handle loads it before the
\* provider's generate/embed runs: if the load fails (no handle afterwards) the
\* provider is not invoked and the dispatcher returns the load failure; a
\* dispatch that invoked the provider, or succeeded, leaves the model loaded.
\* A dispatch on a model that has a handle causes no backend load, and a
\* handle disappears only by an update, unload or unregister of its name.
C11_LazyLoadOnFirstUse ==
    [][/\ (IsDispatch(last'.op) /\ last'.model # "" /\ HasModel(models, last'.model)) =>
           /\ (last'.ok \/ last'.gens > 0) => is_model_loaded(loaded_models', last'.model)
           /\ last'.gens <= 1
           /\ (/\ ~is_model_loaded(loaded_models, last'.model)
               /\ ~is_model_loaded(loaded_models', last'.model)) =>
                  /\ ~last'.ok /\ last'.gens = 0 /\ last'.msg \in LoadFailures
           /\ is_model_loaded(loaded_models, last'.model) =>
                  /\ last'.loads = 0
                  /\ loaded_models' = loaded_models
       /\ \A n \in Names :
             (is_model_loaded(loaded_models, n) /\ ~is_model_loaded(loaded_models', n)) =>
                 /\ last'.op \in {"update", "unload", "unregister"}
                 /\ last'.name = n]_vars

\* A dispatch naming a HuggingFace model that had no handle loaded it with one
\* backend load, then invoked the provider once and succeeded.
C11_Witness ==
    /\ IsDispatch(last.op) /\ last.name # "" /\ last.model = last.name
    /\ ~last.was_loaded /\ last.loads = 1 /\ last.gens = 1 /\ last.ok
    /\ is_model_loaded(loaded_models, last.name)
    /\ ConfigOf(models, last.name).provider = "huggingface"

----------------------------------------------------------------------------
(* Vector service properties *)

\* C12: a create_collection call for a name that does not exist either
\* succeeds or leaves no collection of that name behind: when the index
\* creation fails after the collection was created, the collection is
\* dropped again, so no collection without an index results from the call.
C12_FailedCreateLeavesNoCollection ==
    [][(/\ vlast'.op = "create_collection"
        /\ vlast'.name \notin DOMAIN milvus
        /\ ~vlast'.ok) =>
            vlast'.name \notin DOMAIN milvus']_vars

\* C13: a successful create_collection leaves a collection of that name that
\* has an index (has_collection and has_index answer True); a create_index on
\* a collection that has an index fails, with the already-has-an-index
\* conflict unless a backend call raised first, and leaves the backend, the
\* existing index included, as it was.
C13_CreatedWithIndexThenConflict ==
    [][/\ (vlast'.op = "create_collection" /\ vlast'.ok) =>
           /\ has_collection(milvus', vlast'.name, 0).ok
           /\ has_index(milvus', vlast'.name, 0).ok
       /\ (/\ vlast'.op = "create_index"
           /\ has_index(milvus, vlast'.name, 0).ok) =>
               /\ ~vlast'.ok
               /\ ~vlast'.raised => vlast'.msg = "already_has_index"
               /\ milvus' = milvus]_vars

\* create_index was refused with the conflict on a collection that has the
\* index of its creation.
C13_Witness ==
    /\ vlast.op = "create_index" /\ vlast.msg = "already_has_index"
    /\ vlast.name \in DOMAIN milvus
    /\ milvus[vlast.name].indexes # {}

\* C15: every collection has at most one index.  create_index fails with
\* does-not-exist on an absent collection and with already-has-an-index on a
\* collection that has one, drop_index fails with has-no-index on a
\* collection without one (each unless a backend call of the method raised
\* first, when it fails with the exception's message), and a create_index or
\* drop_index call that fails leaves collections and indexes as they were.
C15_OneIndexPerCollection ==
    [][/\ \A n \in DOMAIN milvus' : Cardinality(milvus'[n].indexes) <= 1
       /\ (vlast'.op \in {"create_index", "drop_index"}) =>
           /\ ~vlast'.ok => milvus' = milvus
           /\ (~vlast'.raised /\ ~has_collection(milvus, vlast'.name, 0).ok) =>
                   ~vlast'.ok /\ vlast'.msg = "does_not_exist"
           /\ (/\ vlast'.op = "create_index" /\ ~vlast'.raised
               /\ has_index(milvus, vlast'.name, 0).ok) =>
                   ~vlast'.ok /\ vlast'.msg = "already_has_index"
           /\ (/\ vlast'.op = "drop_index" /\ ~vlast'.raised
               /\ has_collection(milvus, vlast'.name, 0).ok
               /\ ~has_index(milvus, vlast'.name, 0).ok) =>
                   ~vlast'.ok /\ vlast'.msg = "has_no_index"]_vars

\* drop_index was refused on an existing collection that has no index.
C15_Witness ==
    /\ vlast.op = "drop_index" /\ vlast.msg = "has_no_index"
    /\ vlast.name \in DOMAIN milvus
    /\ milvus[vlast.name].indexes = {}

\* The calls that warm a collection up before they read it.
IsRead(op) == op \in {"search", "get_by_id"}

\* C16: the backend is asked to load a collection at most once across search
\* and get_by_id calls: when a search or get_by_id has loaded a collection
\* and succeeded, the next search or get_by_id on it issues no load.
C16_WarmUpOnce ==
    [][(/\ IsRead(vlast.op) /\ vlast.loads = 1 /\ vlast.ok
        /\ IsRead(vlast'.op) /\ vlast'.name = vlast.name) =>
            vlast'.loads = 0]_vars

StoredIds(c) == {e.id : e \in c.entities}

\* C17: in every reachable state, a search on an existing collection without
\* entities, with a query vector of the collection's dim and any topk,
\* succeeds with zero results when no backend call raises; and whatever the
\* state and the inputs, a search returns at most topk results, all of them
\* ids stored in that collection (none when it fails).
C17_SearchResultsBounded ==
    \A name \in CollNames, query_vector \in Vectors, topk \in TopKs, fail \in Fails :
        LET r == search(milvus, name, query_vector, topk, fail) IN
        /\ Len(r.ids) <= topk
        /\ r.ids # <<>> =>
              /\ r.ok /\ name \in DOMAIN milvus
              /\ \A i \in 1..Len(r.ids) : r.ids[i] \in StoredIds(milvus[name])
        /\ (/\ name \in DOMAIN milvus /\ milvus[name].entities = {}
            /\ Len(query_vector) = milvus[name].vector_dim /\ fail = 0) =>
              r.ok /\ r.ids = <<>>

\* A search on an existing collection without entities succeeded with zero
\* results.
C17_Witness ==
    /\ vlast.op = "search" /\ vlast.ok /\ vlast.ids = <<>>
    /\ vlast.name \in DOMAIN milvus
    /\ milvus[vlast.name].entities = {}

\* The vectors stored under an id.
VectorsOf(c, id) == {e.vector : e \in {x \in c.entities : x.id = id}}

\* An entity leaves a collection only by a successful delete, upsert or
\* drop_collection on that collection.
EntitiesPersist ==
    \A n \in DOMAIN milvus : \A e \in milvus[n].entities :
        (n \notin DOMAIN milvus' \/ e \notin milvus'[n].entities) =>
            /\ vlast'.name = n /\ vlast'.ok
            /\ vlast'.op \in {"delete", "upsert", "drop_collection"}

C19_FailuresAreResults ==
    vlast.raised => (~vlast.ok /\ vlast.msg # "")

----------------------------------------------------------------------------
(* Transport boundary: what the gRPC handlers send back *)

\* The codes a response may carry.
ERROR_CODES ==
    {"OK", "INVALID_ARGUMENT", "UNAUTHENTICATED", "PERMISSION_DENIED", "NOT_FOUND",
     "CONFLICT", "FAILED_PRECONDITION", "INTERNAL", "UNAVAILABLE"}

\* A handler's reply: the status code (OK unless context.set_code was
\* called), the details set with it, and the fields of the response it
\* returns ({} for the empty dict).
Reply(code, details, body) == [code |-> code, details |-> details, body |-> body]

\* The `except Exception` branch every handler ends with.
HandlerRaised == Reply("INTERNAL", "handler_exception", {})

\* The fields of the response a vector handler builds on its normal path.
VectorBody(op) ==
    IF op = "health_check" THEN {"healthy", "message"}
    ELSE IF op = "has_collection" THEN {"exists"}
    ELSE IF op = "has_index" THEN {"has_index"}
    ELSE IF op = "list_collections" THEN {"collections"}
    ELSE IF op = "get_collection_info"
    THEN {"name", "description", "vector_dim", "created_at", "updated_at"}
    ELSE IF op = "get_collection_stats" THEN {"name", "vector_count", "size_in_bytes"}
    ELSE IF op \in {"insert", "upsert"} THEN {"success", "message", "ids"}
    ELSE IF op = "search" THEN {"success", "message", "results"}
    ELSE IF op = "get_by_id" THEN {"id", "vector", "metadata"}
    ELSE {"success", "message"}

\* Faulty variant: GetById sets the status code of a failed lookup without
\* passing the service's message on as details.
VectorReply_code_only(c, raises) ==
    IF raises THEN HandlerRaised
    ELSE IF c.op = "get_by_id" /\ ~c.ok THEN Reply("INTERNAL", "", {})
    ELSE IF c.op = "get_by_id" /\ c.vector = None THEN Reply("NOT_FOUND", "vector_not_found", {})
    ELSE IF c.op \in {"get_collection_info", "get_collection_stats"} /\ ~c.ok
    THEN Reply("NOT_FOUND", "collection_not_found", {})
    ELSE Reply("OK", "", VectorBody(c.op))

\* VectorServiceImpl: the reply to a call c of the service.  `raises` is an
\* exception inside the handler itself (reading the request, building the
\* response).  Only GetById, GetCollectionInfo and GetCollectionStats look at
\* what the service returned; the other handlers pass success and message on
\* in the response under status OK.
VectorReply(c, raises) ==
    IF raises THEN HandlerRaised
    ELSE IF c.op = "get_by_id" /\ ~c.ok THEN Reply("INTERNAL", c.msg, {})
    ELSE IF c.op = "get_by_id" /\ c.vector = None THEN Reply("NOT_FOUND", "vector_not_found", {})
    ELSE IF c.op \in {"get_collection_info", "get_collection_stats"} /\ ~c.ok
    THEN Reply("NOT_FOUND", "collection_not_found", {})
    ELSE Reply("OK", "", VectorBody(c.op))

ModelHandlers ==
    {"health_check", "register", "update", "unregister", "list_models", "get_model",
     "load", "unload", "is_model_loaded", "generate_text", "generate_embedding"}

\* What the model service can hand to a handler: the success flag (for
\* get_model: a descriptor was found) and the message.
ModelOutcomes ==
    [ok : BOOLEAN,
     msg : {"no_default", "not_found", "load_exception", "openai_not_initialized",
            "unsupported_provider", "generate_exception", "embed_exception",
            "generated", "embedded", "loaded"}]

ModelBody(op) ==
    IF op = "health_check" THEN {"healthy", "message"}
    ELSE IF op = "list_models" THEN {"models"}
    ELSE IF op = "get_model"
    THEN {"name", "provider", "model_path", "model_type", "description", "is_default", "config"}
    ELSE IF op = "is_model_loaded" THEN {"is_loaded"}
    ELSE IF op = "generate_text" THEN {"text", "model_name", "tokens_used", "finish_reason"}
    ELSE IF op = "generate_embedding" THEN {"embedding", "model_name", "dimension"}
    ELSE {"success", "message"}

\* ModelServiceImpl: GenerateText and GenerateEmbedding answer a failed call
\* with INTERNAL and the service's message, GetModel a missing descriptor
\* with NOT_FOUND; the other handlers pass success and message on.
ModelReply(op, r, raises) ==
    IF raises THEN HandlerRaised
    ELSE IF IsDispatch(op) /\ ~r.ok THEN Reply("INTERNAL", r.msg, {})
    ELSE IF op = "get_model" /\ ~r.ok THEN Reply("NOT_FOUND", "model_not_found", {})
    ELSE Reply("OK", "", ModelBody(op))

\* The envelope rule on a reply: the code is one of the fixed codes, a reply
\* with code OK carries data (a response with fields) and a reply with
\* another code carries a message (details).
IsEnvelope(g) ==
    /\ g.code \in ERROR_CODES
    /\ g.code = "OK" => g.body # {}
    /\ g.code # "OK" => g.details # ""

----------------------------------------------------------------------------
(* Dropping collections, through either wrapper of the backend *)

IsDrop(op) == op \in {"drop_collection", "client_drop_collection"}

\* C14: a drop of a name that does not exist fails and leaves the
\* collections as they were; a drop of an existing name (sent over a
\* connection, with no backend call raising) succeeds and leaves no
\* collection of that name.
C14_DropIsNotIdempotent ==
    [][IsDrop(vlast'.op) =>
        /\ vlast'.name \notin DOMAIN milvus =>
              ~vlast'.ok /\ milvus' = milvus
        /\ (/\ vlast'.name \in DOMAIN milvus /\ ~vlast'.raised
            /\ vlast'.op = "client_drop_collection" => connected) =>
              vlast'.ok /\ vlast'.name \notin DOMAIN milvus']_vars

----------------------------------------------------------------------------
\* C21: a create_collection call with vector_dim <= 0 fails without any
\* backend call having been attempted (so none of them raised) and leaves the
\* collections as they were; a create_collection call of an existing name
\* fails with the conflict message and leaves the collections as they were.
C21_CreateValidatesBeforeBackend ==
    [][vlast'.op = "create_collection" =>
        /\ vlast'.vector_dim <= 0 =>
            /\ ~vlast'.ok
            /\ ~vlast'.raised
            /\ milvus' = milvus
        /\ (vlast'.vector_dim > 0 /\ vlast'.existed /\ ~vlast'.raised) =>
            /\ ~vlast'.ok
            /\ vlast'.msg = "already_exists"
            /\ milvus' = milvus]_vars

\* C22: in every reachable backend state, an insert or upsert into an absent
\* collection fails and writes nothing, and an insert or upsert of a batch
\* in which a record's vector has not the collection's vector_dim is refused
\* by the service itself, before the backend write is called (so, with a
\* backend that fails on nothing of its own, no backend call raises), and
\* writes no record of the batch.
C22_WritesValidateLengths ==
    \A name \in CollNames, vectors \in Batches :
        \A r \in {insert(milvus, name, vectors, 0), upsert(milvus, name, vectors, 0)} :
            /\ name \notin DOMAIN milvus => ~r.ok /\ r.milvus = milvus
            /\ (name \in DOMAIN milvus /\ DimMismatch(milvus[name], vectors)) =>
                /\ ~r.ok
                /\ ~r.raised
                /\ r.milvus = milvus

\* What the caller of a vector-service method gets back.
Returned(r) == [ok |-> r.ok, msg |-> r.msg, names |-> r.names, vector |-> r.vector]

\* C23: whenever a backend call of the last operation raised, the operation
\* returned a failure, and when the operation was has_collection, has_index,
\* list_collections or get_collection_info, what it returned differs from
\* everything the same operation returns for a collection name when no
\* backend call raises (False, the list of names, which for list_collections
\* is all that is returned, not found).
C23_BackendFailuresNotSwallowed ==
    vlast.raised =>
        /\ ~vlast.ok
        /\ \A name \in CollNames :
            /\ vlast.op = "has_collection" =>
                  Returned(vlast) # Returned(has_collection(milvus, name, 0))
            /\ vlast.op = "has_index" =>
                  Returned(vlast) # Returned(has_index(milvus, name, 0))
            /\ vlast.op = "list_collections" =>
                  vlast.names # list_collections(<<>>, 0).names
            /\ (vlast.op = "get_collection_info" /\ name \notin DOMAIN milvus) =>
                  Returned(vlast) # Returned(get_collection_info(milvus, name, 0))

----------------------------------------------------------------------------
\* C24: the reply to a get_by_id call for an id that is not stored in an
\* existing collection, and the reply to a generate_text or
\* generate_embedding call that named an unregistered model, has the code
\* NOT_FOUND.
C24_MissingIsNotFound ==
    /\ (vlast.op = "get_by_id" /\ vlast.msg = "vector_not_found") =>
            VectorReply(vlast, FALSE).code = "NOT_FOUND"
    /\ (IsDispatch(last.op) /\ last.msg = "not_found") =>
            ModelReply(last.op, last, FALSE).code = "NOT_FOUND"

----------------------------------------------------------------------------
(* ModelServiceImpl.UpdateModel: from the RPC request to update_model *)

\* The UpdateModel request as the handler reads it: a field that the client
\* did not set reads as the default of its type ("" for the strings, False
\* for is_default).
UpdateModelRpcRequests ==
    [name : Names, provider : Providers \cup {""}, model_type : ModelTypes \cup {""},
     is_default : BOOLEAN]

\* The UpdateModelRequestModel the handler builds: provider is None when the
\* request's is empty; model_type and is_default are passed on as they read.
UpdateModelRequestOf(request) ==
    [name |-> request.name,
     provider |-> IF request.provider # "" THEN Some(request.provider) ELSE None,
     model_type |-> Some(request.model_type),
     is_default |-> Some(request.is_default)]

UpdateModelRpc(ms, lm, request) == update_model(ms, lm, UpdateModelRequestOf(request))

\* C25: in every reachable state, update_model of an unregistered name fails
\* with not-found and changes nothing; update_model of a registered name
\* succeeds and leaves the named descriptor with the provided fields set to
\* the provided values and every other field as it was; and an update that
\* arrives through the UpdateModel handler leaves every field the request did
\* not set (provider, model_type, is_default) as it was.
C25_UpdateIsPartial ==
    /\ \A req \in UpdateRequests :
        LET r == update_model(models, loaded_models, req) IN
        IF ~HasModel(models, req.name)
        THEN ~r.ok /\ r.msg = "not_found" /\ r.models = models /\ r.loaded = loaded_models
        ELSE LET before == ConfigOf(models, req.name)
                 after == ConfigOf(r.models, req.name) IN
            /\ r.ok
            /\ after.provider = IF req.provider = None THEN before.provider
                                ELSE req.provider[1]
            /\ after.model_type = IF req.model_type = None THEN before.model_type
                                  ELSE req.model_type[1]
            /\ after.is_default = IF req.is_default = None THEN before.is_default
                                  ELSE req.is_default[1]
    /\ \A request \in UpdateModelRpcRequests :
        HasModel(models, request.name) =>
            LET r == UpdateModelRpc(models, loaded_models, request)
                before == ConfigOf(models, request.name)
                after == ConfigOf(r.models, request.name) IN
            /\ r.ok
            /\ request.provider = "" => after.provider = before.provider
            /\ request.model_type = "" => after.model_type = before.model_type
            /\ ~request.is_default => after.is_default = before.is_default

----------------------------------------------------------------------------
(* The default flip of register_model and update_model in its two steps:  *)
(* the descriptor is stored with is_default = True, then the loop clears  *)
(* is_default on the other descriptors.  Between the two steps the        *)
(* registry is in the state another handler would read, were it to run.   *)

\* Does the event loop run other handlers while handler h is between its two
\* steps?  Faulty variant: the handler awaits between the steps.
handler_awaits_between_steps(h) == TRUE

\* RegisterModel and UpdateModel are coroutines without an await and the
\* service they call is synchronous: the event loop runs nothing else until
\* the handler returns.
handler_awaits(h) == FALSE

\* The event loop may start a handler.
Scheduled == running = NotRunning \/ handler_awaits(running)

\* register_model up to self.models[request.name] = model_config.
register_model_store(ms, req) ==
    Append(ms, [name |-> req.name, provider |-> req.provider,
                model_type |-> req.model_type, is_default |-> req.is_default])

\* update_model up to model_config.is_default = request.is_default.
update_model_assign(ms, req) ==
    LET i == IndexOf(ms, req.name)
        c0 == ms[i]
        c1 == IF req.provider # None THEN [c0 EXCEPT !.provider = req.provider[1]] ELSE c0
        c2 == IF req.model_type # None
              THEN [c1 EXCEPT !.model_type = req.model_type[1]] ELSE c1
        c3 == IF req.is_default # None
              THEN [c2 EXCEPT !.is_default = req.is_default[1]] ELSE c2
    IN [ms EXCEPT ![i] = c3]

\* A register call that installs a default: first step.
BeginRegister ==
    /\ running = NotRunning
    /\ \E req \in RegisterRequests :
        /\ req.is_default
        /\ ~HasModel(models, req.name)
        /\ models' = register_model_store(models, req)
        /\ running' = [op |-> "register", name |-> req.name]
    /\ UNCHANGED <<loaded_models, openai_client, last, pending, race, milvus, vlast,
                   connected, collections>>

\* An update call that installs a default: first step.
BeginUpdate ==
    /\ running = NotRunning
    /\ \E req \in UpdateRequests :
        /\ req.is_default = Some(TRUE)
        /\ HasModel(models, req.name)
        /\ models' = update_model_assign(models, req)
        /\ running' = [op |-> "update", name |-> req.name]
    /\ UNCHANGED <<loaded_models, openai_client, last, pending, race, milvus, vlast,
                   connected, collections>>

\* Second step of either: the loop over the other descriptors, for update the
\* unload of a loaded model, and the return.
EndFlip ==
    /\ running # NotRunning
    /\ LET ms == ClearOtherDefaults(models, running.name)
           lm == IF running.op = "update" /\ running.name \in DOMAIN loaded_models
                 THEN unload_model(ms, loaded_models, running.name).loaded
                 ELSE loaded_models
           msg == IF running.op = "update" THEN "updated" ELSE "registered"
       IN /\ models' = ms
          /\ loaded_models' = lm
          /\ last' = Call(running.op, running.name, Some(TRUE),
                          Result(ms, lm, TRUE, msg, 0, 0))
    /\ running' = NotRunning
    /\ race' = NoRace
    /\ UNCHANGED <<openai_client, pending, milvus, vlast, connected, collections>>

\* The register and update calls that install no default, and unregister,
\* run as one step when the event loop starts them.
RegisterNoFlip ==
    /\ Scheduled
    /\ \E req \in RegisterRequests :
        /\ ~req.is_default \/ HasModel(models, req.name)
        /\ Apply(register_model(models, loaded_models, req), "register", req.name,
                 Some(req.is_default))

UpdateNoFlip ==
    /\ Scheduled
    /\ \E req \in UpdateRequests :
        /\ req.is_default # Some(TRUE) \/ ~HasModel(models, req.name)
        /\ Apply(update_model(models, loaded_models, req), "update", req.name,
                 req.is_default)

UnregisterScheduled == Scheduled /\ UnregisterModel

\* The readers: get_default_model as the dispatchers call it, and ListModels.
\* The record of the call keeps the name of the descriptor that was returned.
GetDefaultModel ==
    /\ Scheduled
    /\ \E model_type \in ModelTypes :
        LET d == get_default_model(models, model_type) IN
        Apply([Result(models, loaded_models, d # None, "", 0, 0)
                  EXCEPT !.model = IF d = None THEN "" ELSE d[1].name],
              "get_default_model", "", None)

ListModels ==
    /\ Scheduled
    /\ Apply(Result(models, loaded_models, TRUE, "", 0, 0), "list_models", "", None)

NextFlip ==
    \/ BeginRegister
    \/ BeginUpdate
    \/ EndFlip
    \/ RegisterNoFlip
    \/ UpdateNoFlip
    \/ UnregisterScheduled
    \/ GetDefaultModel
    \/ ListModels

SpecFlip == InitVec /\ [][NextFlip]_vars

IsReader(op) == op \in {"get_default_model", "list_models"}

\* C26: whenever get_default_model or ListModels runs, under any interleaving
\* with register, update and unregister calls, the registry it reads has at
\* most one default descriptor per model type, and the descriptor that
\* get_default_model returns is the only default of its model type in the
\* registry: an older default is never returned while a newer one is there.
C26_FlipIsAtomic ==
    [][(IsReader(last'.op) /\ models' = models) =>
        /\ \A t \in ModelTypes : Cardinality(DefaultsOfType(t)) <= 1
        /\ (last'.op = "get_default_model" /\ last'.ok) =>
                \A i \in 1..Len(models) :
                    (/\ models[i].is_default
                     /\ models[i].model_type = ConfigOf(models, last'.model).model_type) =>
                        models[i].name = last'.model]_vars

\* A register or update call has just returned that had stored a second
\* default next to an older one of the same model type (its loop then cleared
\* the older one), and no reader ran in between.
C26_Witness ==
    /\ last.op \in {"register", "update"} /\ last.ok /\ running = NotRunning
    /\ \E a \in last.defaults_before, b \in last.defaults_before :
        /\ a # b
        /\ HasModel(models, a) /\ HasModel(models, b)
        /\ ConfigOf(models, a).model_type = ConfigOf(models, b).model_type
        /\ Cardinality(DefaultsOfType(ConfigOf(models, a).model_type)) = 1

----------------------------------------------------------------------------
\* C27: in every state reachable by register, update, unregister, load,
\* unload, generate_text and generate_embedding calls, every name with a
\* loaded handle is a registered model name.
C27_HandlesAreRegistered == DOMAIN loaded_models \subseteq Registered

\* A loaded model has been unregistered while another model stays loaded:
\* the handle of the first is gone, the other one is still registered.
C27_Witness ==
    /\ last.op = "unregister" /\ last.ok /\ last.was_loaded
    /\ last.name \notin DOMAIN loaded_models
    /\ \E n \in DOMAIN loaded_models : n # last.name /\ n \in Registered

----------------------------------------------------------------------------
ProviderRaised(msg) == msg \in {"generate_exception", "embed_exception"}

\* C28 as stated: a generate_text or generate_embedding call that returns
\* failure leaves the registry and the loaded handles as they were.
C28_FailedDispatchChangesNothing ==
    [][(IsDispatch(last'.op) /\ ~last'.ok) =>
            models' = models /\ loaded_models' = loaded_models]_vars

\* C28, amended: a generate_text or generate_embedding call that returns
\* failure leaves the registry as it was; it leaves the loaded handles as
\* they were when it failed before the provider call (unknown model, no
\* default, load failure) or when the resolved model was loaded already; when
\* it loaded the resolved model itself and the provider call then failed, the
\* handle of that model has been added and nothing else has changed.
C28_FailedDispatchKeepsLazyLoad ==
    [][(IsDispatch(last'.op) /\ ~last'.ok) =>
        /\ models' = models
        /\ (~ProviderRaised(last'.msg) \/ last'.model \in DOMAIN loaded_models) =>
                loaded_models' = loaded_models
        /\ (ProviderRaised(last'.msg) /\ last'.model \notin DOMAIN loaded_models) =>
                /\ last'.model \in DOMAIN loaded_models'
                /\ DelHandle(loaded_models', last'.model) = loaded_models]_vars

\* A dispatch to a named model that had no handle failed in the provider
\* call: the model is loaded now.
C28_Witness ==
    /\ IsDispatch(last.op) /\ ~last.ok /\ ProviderRaised(last.msg)
    /\ last.name # "" /\ ~last.was_loaded
    /\ last.model = last.name
    /\ last.model \in DOMAIN loaded_models

----------------------------------------------------------------------------
\* The last call was a dispatcher call that reached the provider's generate
\* or embed call.
Dispatched == IsDispatch(last.op) /\ last.gens = 1

\* C29 as stated: the model a generate_text call dispatches to has
\* model_type "generation" and the model a generate_embedding call
\* dispatches to has model_type "embedding", whether the model was resolved
\* through the default or named in the request.
C29_DispatchMatchesType ==
    Dispatched =>
        /\ HasModel(models, last.model)
        /\ ConfigOf(models, last.model).model_type = DispatchType(last.op)

\* C29, amended: a dispatcher call without a model name dispatches to a
\* registered model of the dispatcher's model type (the default of that
\* type); a call that names a model dispatches to the registered model of
\* that name, whatever its model_type.
C29_DefaultDispatchMatchesType ==
    Dispatched =>
        /\ HasModel(models, last.model)
        /\ last.name = "" =>
            /\ ConfigOf(models, last.model).model_type = DispatchType(last.op)
            /\ ConfigOf(models, last.model).is_default
        /\ last.name # "" => last.model = last.name

\* A call without a model name was dispatched to the default of its type
\* while a model of the other type is registered too.
C29_Witness ==
    /\ Dispatched /\ last.name = ""
    /\ ConfigOf(models, last.model).model_type = DispatchType(last.op)
    /\ \E i \in 1..Len(models) : models[i].model_type # DispatchType(last.op)

----------------------------------------------------------------------------
\* C30: after any sequence of MilvusClient calls, every name in the client's
\* cache names a collection that exists in the backend, and the cached
\* object is that of the collection that exists now, not of a dropped one of
\* the same name.
C30_CacheHoldsLiveCollections ==
    \A name \in DOMAIN collections : ~Stale(milvus, name, collections[name])

\* A collection that a search through the client had loaded, and so had
\* cached, has been dropped: neither the backend nor the cache has it.
C30_Witness ==
    /\ vlast.op = "client_drop_collection" /\ vlast.ok
    /\ vlast.existed /\ vlast.was_warm
    /\ vlast.name \notin DOMAIN milvus
    /\ vlast.name \notin DOMAIN collections

====
